---- MODULE Spec2Model ----
(***************************************************************************)
(* Model of cbits/foundation_time.c: the clock_gettime / clock_getres      *)
(* compatibility shim built on the Mach clock services.                    *)
(*                                                                         *)
(* State: the file-static `timebase`, the native services the shim calls  *)
(* (system clock, calendar clock, timebase service, port rights), and the  *)
(* observable result of the most recent call (status, output buffer, the   *)
(* native calls it made).                                                  *)
(***************************************************************************)
EXTENDS Integers, Sequences, FiniteSets, TLC

(* ------------------------------ bounds -------------------------------- *)
MaxSec == 1
MaxClockId == 3
MaxQueries == 2
NumPorts == 2
NumThreads == 2

(* --------------------------- clockid_t enum --------------------------- *)
CLOCK_REALTIME == 0
CLOCK_MONOTONIC == 1
CLOCK_PROCESS_CPUTIME_ID == 2
CLOCK_THREAD_CPUTIME_ID == 3

ClockIds == 0..MaxClockId
\* tv_nsec lies in [0, 1000000000): its two extreme values stand for the range
NsecValues == {0, 999999999}
MachTimespecs == [tv_sec : 0..MaxSec, tv_nsec : NsecValues]
Ports == 1..NumPorts
\* tick-to-nanosecond ratios the native timebase service reports: 1/1 and 125/3
Ratios == {[numer |-> 1, denom |-> 1], [numer |-> 125, denom |-> 3]}
Threads == 1..NumThreads

\* An output struct timespec no field of which has been assigned; an assigned
\* field holds <<value>>.
Unwritten == [tv_sec |-> <<>>, tv_nsec |-> <<>>]

VARIABLES
  timebase,       \* static mach_timebase_info_data_t timebase
  nativeRatio,    \* ratio the native timebase service reports (fixed per boot)
  tbQueries,      \* number of mach_timebase_info calls made so far
  systemClock,    \* current reading of SYSTEM_CLOCK
  calendarClock,  \* current reading of CALENDAR_CLOCK
  urefs,          \* send rights the task holds on each clock-service port
  status,         \* "running", or "trapped" after a division fault
  lastOp,         \* "none" | "gettime" | "getres": the most recent call
  lastKind,       \* its clockid argument
  ret,            \* its return value
  timespec,       \* what the call assigned to each field of *timespec
  calls,          \* native calls the call made, in order
  prevMono,       \* result of the gettime(CLOCK_MONOTONIC) before the last one
  lastMono,       \* result of the last gettime(CLOCK_MONOTONIC)
  monoRes,        \* distinct results getres(CLOCK_MONOTONIC) has returned
  pc,             \* per thread: position inside a concurrent getres call
  tspec,          \* per thread: output buffer of the concurrent call
  tret            \* per thread: return value of the concurrent call

seqVars == <<lastOp, lastKind, ret, timespec, calls, prevMono, lastMono,
             monoRes>>
concVars == <<pc, tspec, tret>>
envVars == <<nativeRatio, systemClock, calendarClock>>
vars == <<timebase, nativeRatio, tbQueries, systemClock, calendarClock, urefs,
          status, lastOp, lastKind, ret, timespec, calls, prevMono,
          lastMono, monoRes, pc, tspec, tret>>

Init ==
  /\ timebase = [numer |-> 0, denom |-> 0]
  /\ nativeRatio \in Ratios
  /\ tbQueries = 0
  /\ systemClock \in MachTimespecs
  /\ calendarClock \in MachTimespecs
  /\ urefs = [p \in Ports |-> 0]
  /\ status = "running"
  /\ lastOp = "none"
  /\ lastKind = 0
  /\ ret = 0
  /\ timespec = Unwritten
  /\ calls = <<>>
  /\ prevMono = <<>>
  /\ lastMono = <<>>
  /\ monoRes = {}
  /\ pc = [t \in Threads |-> "idle"]
  /\ tspec = [t \in Threads |-> Unwritten]
  /\ tret = [t \in Threads |-> 0]

(* ------------------------- native services ---------------------------- *)

LexLeq(a, b) ==
  \/ a.tv_sec < b.tv_sec
  \/ a.tv_sec = b.tv_sec /\ a.tv_nsec <= b.tv_nsec

\* The system clock only moves forward: it ticks to the next later reading.
SystemClockAdvance ==
  /\ status = "running"
  /\ \E v \in MachTimespecs :
       /\ v # systemClock
       /\ LexLeq(systemClock, v)
       /\ \A w \in MachTimespecs :
            (w # systemClock /\ LexLeq(systemClock, w)) => LexLeq(v, w)
       /\ systemClock' = v
  /\ UNCHANGED <<timebase, nativeRatio, tbQueries, calendarClock, urefs, status>>
  /\ UNCHANGED seqVars
  /\ UNCHANGED concVars

\* The calendar clock is subject to adjustment in either direction.
CalendarClockAdjust ==
  /\ status = "running"
  /\ \E v \in MachTimespecs :
       /\ v # calendarClock
       /\ calendarClock' = v
  /\ UNCHANGED <<timebase, nativeRatio, tbQueries, systemClock, urefs, status>>
  /\ UNCHANGED seqVars
  /\ UNCHANGED concVars

\* clock_get_time(cclock, &mts) for a port obtained for `clock`.
clock_get_time(clock) ==
  IF clock = "SYSTEM_CLOCK" THEN systemClock ELSE calendarClock

\* Effect of one native call on the task's port rights.
ApplyCall(u, c) ==
  IF c.fn = "host_get_clock_service" THEN [u EXCEPT ![c.port] = @ + 1]
  ELSE IF c.fn = "mach_port_deallocate" THEN [u EXCEPT ![c.port] = @ - 1]
  ELSE u

RECURSIVE ApplyCalls(_, _)
ApplyCalls(u, cs) ==
  IF cs = <<>> THEN u ELSE ApplyCalls(ApplyCall(u, Head(cs)), Tail(cs))

\* mach_timebase_info(timebase): the argument is the struct itself, not its
\* address, so the callee fills in its own copy and the caller's object is
\* what it was before the call.
mach_timebase_info(info) == info

(* ------------------- foundation_time_clock_gettime -------------------- *)

ClockServiceFor_Swapped(clockid) ==
  IF clockid = CLOCK_MONOTONIC THEN "CALENDAR_CLOCK" ELSE "SYSTEM_CLOCK"

\* Which clock service each case of the switch asks the host for.
ClockServiceFor(clockid) ==
  IF clockid = CLOCK_MONOTONIC THEN "SYSTEM_CLOCK" ELSE "CALENDAR_CLOCK"

GetTimeCalls_NoDeallocate(clock, cclock, mts) ==
  << [fn |-> "host_get_clock_service", clock |-> clock, port |-> cclock, mts |-> <<>>],
     [fn |-> "clock_get_time", clock |-> clock, port |-> cclock, mts |-> <<mts>>] >>

\* host_get_clock_service; clock_get_time; mach_port_deallocate.
GetTimeCalls(clock, cclock, mts) ==
  << [fn |-> "host_get_clock_service", clock |-> clock, port |-> cclock, mts |-> <<>>],
     [fn |-> "clock_get_time", clock |-> clock, port |-> cclock, mts |-> <<mts>>],
     [fn |-> "mach_port_deallocate", clock |-> clock, port |-> cclock, mts |-> <<>>] >>

MtsToTimespec_Swapped(mts) ==
  [tv_sec |-> <<mts.tv_nsec>>, tv_nsec |-> <<mts.tv_sec>>]

\* timespec->tv_sec = mts.tv_sec; timespec->tv_nsec = mts.tv_nsec;
MtsToTimespec(mts) ==
  [tv_sec |-> <<mts.tv_sec>>, tv_nsec |-> <<mts.tv_nsec>>]

\* The (seconds, nanoseconds) pair the caller reads from a fully assigned
\* output struct.
Returned(ts) == [tv_sec |-> ts.tv_sec[1], tv_nsec |-> ts.tv_nsec[1]]

foundation_time_clock_gettime(clockid) ==
  /\ status = "running"
  /\ lastOp' = "gettime"
  /\ lastKind' = clockid
  /\ IF clockid \in {CLOCK_MONOTONIC, CLOCK_REALTIME}
     THEN \E cclock \in Ports :
            LET clock == ClockServiceFor(clockid)
                mts == clock_get_time(clock)
            IN /\ calls' = GetTimeCalls(clock, cclock, mts)
               /\ urefs' = ApplyCalls(urefs, calls')
               /\ timespec' = MtsToTimespec(mts)
     ELSE \* default: the statement `-1;` has no effect
          /\ calls' = <<>>
          /\ timespec' = Unwritten
          /\ UNCHANGED urefs
  /\ ret' = 0
  /\ IF clockid = CLOCK_MONOTONIC
     THEN prevMono' = lastMono /\ lastMono' = <<Returned(timespec')>>
     ELSE UNCHANGED <<prevMono, lastMono>>
  /\ UNCHANGED <<timebase, nativeRatio, tbQueries, systemClock, calendarClock, status,
                 monoRes>>
  /\ UNCHANGED concVars

(* -------------------- foundation_time_clock_getres -------------------- *)

\* Outcomes of timebase.numer / timebase.denom.  With a zero divisor the
\* behaviour is undefined: the division faults, or yields some value.
DivOutcomes(numer, denom) ==
  IF denom # 0
  THEN {[trap |-> FALSE, val |-> numer \div denom]}
  ELSE {[trap |-> TRUE, val |-> 0]} \cup {[trap |-> FALSE, val |-> v] : v \in NsecValues}

\* case CLOCK_MONOTONIC of getres
GetResMonotonic ==
  /\ tbQueries < MaxQueries
  /\ LET query == (timebase.denom = 0)
         tb == IF query THEN mach_timebase_info(timebase) ELSE timebase
     IN /\ calls' = IF query
                    THEN << [fn |-> "mach_timebase_info", clock |-> "", port |-> 0,
                             mts |-> <<>>] >>
                    ELSE <<>>
        /\ tbQueries' = IF query THEN tbQueries + 1 ELSE tbQueries
        /\ timebase' = tb
        /\ \E o \in DivOutcomes(tb.numer, tb.denom) :
             IF o.trap
             THEN /\ status' = "trapped"
                  /\ timespec' = [Unwritten EXCEPT !.tv_sec = <<0>>]
                  /\ UNCHANGED <<ret, monoRes>>
             ELSE /\ timespec' = [tv_sec |-> <<0>>, tv_nsec |-> <<o.val>>]
                  /\ ret' = -1
                  /\ monoRes' = monoRes \cup {timespec'}
                  /\ UNCHANGED status

GetResRealtime_FallsThrough ==
  /\ GetResMonotonic

\* case CLOCK_REALTIME of getres: return -1
GetResRealtime ==
  /\ ret' = -1
  /\ calls' = <<>>
  /\ timespec' = Unwritten
  /\ UNCHANGED <<timebase, tbQueries, status, monoRes>>

\* no case matches: control reaches the final return -1
GetResOther ==
  /\ ret' = -1
  /\ calls' = <<>>
  /\ timespec' = Unwritten
  /\ UNCHANGED <<timebase, tbQueries, status, monoRes>>

foundation_time_clock_getres(clockid) ==
  /\ status = "running"
  /\ lastOp' = "getres"
  /\ lastKind' = clockid
  /\ IF clockid = CLOCK_MONOTONIC THEN GetResMonotonic
     ELSE IF clockid = CLOCK_REALTIME THEN GetResRealtime
     ELSE GetResOther
  /\ UNCHANGED <<nativeRatio, systemClock, calendarClock, urefs, prevMono, lastMono>>
  /\ UNCHANGED concVars

GetTime == \E clockid \in ClockIds : foundation_time_clock_gettime(clockid)
GetRes == \E clockid \in ClockIds : foundation_time_clock_getres(clockid)

Next ==
  \/ GetTime
  \/ GetRes
  \/ SystemClockAdvance
  \/ CalendarClockAdjust

Spec == Init /\ [][Next]_vars

(* ---- getres(CLOCK_MONOTONIC) called from several threads at once ----- *)
(* Each thread makes one call on its own output buffer; the steps are the  *)
(* accesses to the shared `timebase` and to the native timebase service.   *)

\* entry: switch (clockid) selects case CLOCK_MONOTONIC
ConcCall(t) ==
  /\ status = "running"
  /\ pc[t] = "idle"
  /\ pc' = [pc EXCEPT ![t] = "check"]
  /\ UNCHANGED <<timebase, tbQueries, urefs, status, tspec, tret>>
  /\ UNCHANGED envVars
  /\ UNCHANGED seqVars

\* if (timebase.denom == 0)
ConcCheck(t) ==
  /\ status = "running"
  /\ pc[t] = "check"
  /\ pc' = [pc EXCEPT ![t] = IF timebase.denom = 0 THEN "query" ELSE "divide"]
  /\ UNCHANGED <<timebase, tbQueries, urefs, status, tspec, tret>>
  /\ UNCHANGED envVars
  /\ UNCHANGED seqVars

\* mach_timebase_info(timebase);
ConcQuery(t) ==
  /\ status = "running"
  /\ pc[t] = "query"
  /\ tbQueries' = tbQueries + 1
  /\ timebase' = mach_timebase_info(timebase)
  /\ pc' = [pc EXCEPT ![t] = "divide"]
  /\ UNCHANGED <<urefs, status, tspec, tret>>
  /\ UNCHANGED envVars
  /\ UNCHANGED seqVars

\* timespec->tv_sec = 0; timespec->tv_nsec = timebase.numer / timebase.denom;
ConcDivide(t) ==
  /\ status = "running"
  /\ pc[t] = "divide"
  /\ \E o \in DivOutcomes(timebase.numer, timebase.denom) :
       IF o.trap
       THEN /\ status' = "trapped"
            /\ tspec' = [tspec EXCEPT ![t] = [Unwritten EXCEPT !.tv_sec = <<0>>]]
            /\ pc' = [pc EXCEPT ![t] = "fault"]
       ELSE /\ tspec' = [tspec EXCEPT ![t] = [tv_sec |-> <<0>>, tv_nsec |-> <<o.val>>]]
            /\ pc' = [pc EXCEPT ![t] = "return"]
            /\ UNCHANGED status
  /\ UNCHANGED <<timebase, tbQueries, urefs, tret>>
  /\ UNCHANGED envVars
  /\ UNCHANGED seqVars

\* break; return -1;
ConcReturn(t) ==
  /\ status = "running"
  /\ pc[t] = "return"
  /\ tret' = [tret EXCEPT ![t] = -1]
  /\ pc' = [pc EXCEPT ![t] = "returned"]
  /\ UNCHANGED <<timebase, tbQueries, urefs, status, tspec>>
  /\ UNCHANGED envVars
  /\ UNCHANGED seqVars

NextConc ==
  \/ \E t \in Threads : ConcCall(t)
  \/ \E t \in Threads : ConcCheck(t)
  \/ \E t \in Threads : ConcQuery(t)
  \/ \E t \in Threads : ConcDivide(t)
  \/ \E t \in Threads : ConcReturn(t)

SpecConc == Init /\ [][NextConc]_vars

(* ============================ properties ============================== *)

Supported(op, kind) ==
  \/ op = "gettime" /\ kind \in {CLOCK_MONOTONIC, CLOCK_REALTIME}
  \/ op = "getres" /\ kind = CLOCK_MONOTONIC

NativeQuotient == nativeRatio.numer \div nativeRatio.denom

\* C1: each supported pair (gettime, MONOTONIC), (gettime, REALTIME),
\* (getres, MONOTONIC) completes and returns the success status 0.
C1_SupportedPairsReturnZero ==
  Supported(lastOp, lastKind) => (status = "running" /\ ret = 0)

\* C2: for every clock kind outside {MONOTONIC, REALTIME} both operations
\* return a non-zero status and leave the output timestamp unwritten.
C2_OtherKindsFailUnwritten ==
  (lastOp # "none" /\ lastKind \notin {CLOCK_MONOTONIC, CLOCK_REALTIME})
    => (ret # 0 /\ timespec = Unwritten)

\* C3: getres(CLOCK_REALTIME) always returns a non-zero status, writes no
\* field of the output timestamp, makes no native call and leaves the cached
\* timebase ratio as it was.
C3_GetResRealtimeUnsupported ==
  [][foundation_time_clock_getres(CLOCK_REALTIME)
       => /\ ret' # 0
          /\ timespec' = Unwritten
          /\ calls' = <<>>
          /\ timebase' = timebase
          /\ tbQueries' = tbQueries]_vars

C3_Witness ==
  /\ lastOp = "getres"
  /\ lastKind = CLOCK_REALTIME
  /\ ret = -1
  /\ tbQueries > 0

\* C4: getres(CLOCK_MONOTONIC) writes (0, numerator div denominator) of the
\* ratio the native timebase service reports, and never divides by a zero
\* denominator.
C4_ResolutionIsNativeQuotient ==
  (lastOp = "getres" /\ lastKind = CLOCK_MONOTONIC)
    => /\ status = "running"
       /\ timebase.denom # 0
       /\ timespec = [tv_sec |-> <<0>>, tv_nsec |-> <<NativeQuotient>>]

\* C5: every getres(CLOCK_MONOTONIC) call returns the same (seconds,
\* nanoseconds) value as every earlier one.
C5_ResolutionRepeats ==
  Cardinality(monoRes) <= 1

\* C6: the ratio starts as 0/0; the native timebase service is queried
\* exactly once, by the first getres(CLOCK_MONOTONIC), and not again.
C6_TimebaseQueriedExactlyOnce ==
  /\ tbQueries = 0 => timebase = [numer |-> 0, denom |-> 0]
  /\ monoRes # {} => tbQueries = 1

\* C7: a gettime call that acquires a clock-service port queries it and
\* then releases that same port, in this order; no port right is left
\* outstanding after any call, and a call with an unsupported kind makes no
\* native call at all.
C7_PortAcquiredQueriedReleased ==
  /\ \A p \in Ports : urefs[p] = 0
  /\ lastOp = "gettime" =>
       IF lastKind \in {CLOCK_MONOTONIC, CLOCK_REALTIME}
       THEN /\ Len(calls) = 3
            /\ calls[1].fn = "host_get_clock_service"
            /\ calls[2].fn = "clock_get_time"
            /\ calls[3].fn = "mach_port_deallocate"
            /\ calls[2].port = calls[1].port
            /\ calls[3].port = calls[1].port
       ELSE calls = <<>>

C7_Witness ==
  /\ lastOp = "gettime"
  /\ lastKind = CLOCK_REALTIME
  /\ Len(calls) = 3
  /\ prevMono # <<>>

\* C8: gettime(CLOCK_MONOTONIC) asks only the system clock service and
\* gettime(CLOCK_REALTIME) only the calendar clock service, and the returned
\* (seconds, nanoseconds) is the pair that service reported, unmodified.
C8_ServiceSelectedValueUnmodified ==
  [][/\ foundation_time_clock_gettime(CLOCK_MONOTONIC)
          => /\ timespec' = [tv_sec |-> <<systemClock.tv_sec>>,
                             tv_nsec |-> <<systemClock.tv_nsec>>]
             /\ \A i \in DOMAIN calls' : calls'[i].clock = "SYSTEM_CLOCK"
     /\ foundation_time_clock_gettime(CLOCK_REALTIME)
          => /\ timespec' = [tv_sec |-> <<calendarClock.tv_sec>>,
                             tv_nsec |-> <<calendarClock.tv_nsec>>]
             /\ \A i \in DOMAIN calls' : calls'[i].clock = "CALENDAR_CLOCK"]_vars

C8_Witness ==
  /\ lastOp = "gettime"
  /\ lastKind = CLOCK_REALTIME
  /\ Returned(timespec) = calendarClock
  /\ systemClock # calendarClock

\* C9: with a system clock that never goes back, two consecutive
\* gettime(CLOCK_MONOTONIC) results are non-decreasing in lexicographic
\* order, whatever other calls happen in between.
C9_MonotonicNonDecreasing ==
  prevMono # <<>> => LexLeq(prevMono[1], lastMono[1])

C9_Witness ==
  /\ prevMono # <<>>
  /\ prevMono # lastMono
  /\ lastOp = "getres"
  /\ LexLeq(calendarClock, prevMono[1])
  /\ calendarClock # prevMono[1]

\* C10: when several threads call getres(CLOCK_MONOTONIC) concurrently on
\* the uninitialized ratio, the native timebase service is queried at most
\* once, no call divides by zero, and every call returns numerator div
\* denominator of the native ratio.
C10_ConcurrentQueriedOnceSameValue ==
  /\ tbQueries <= 1
  /\ status = "running"
  /\ \A t \in Threads :
       pc[t] \in {"return", "returned"}
         => tspec[t] = [tv_sec |-> <<0>>, tv_nsec |-> <<NativeQuotient>>]

====
